---- MODULE Spec2Model ----
(***************************************************************************)
(* Two-tier lexicographic optimisation of hotel bookings                   *)
(* (static_lco_model.py, pyomo_lco_mini.py).                               *)
(*                                                                         *)
(* Numbers.  Money is counted in whole ticks, `ticks` of them to a         *)
(* currency unit: the checked instances write prices in ticks of 1e-6      *)
(* (the revenue-floor tolerance), the built-in instance in whole currency  *)
(* units.  Show probabilities and slack are counted in 1/ShowScale of a    *)
(* room, so a capacity of c rooms is c * ShowScale.                        *)
(* A binary variable holds 0 or 1; "value > 0.5" is 2 * value > 1.         *)
(***************************************************************************)
EXTENDS Integers, Sequences, FiniteSets, TLC

VARIABLES
    bookings,          \* argument: None, or booking id -> BookingSpec
    days,              \* argument: horizon length
    rooms,             \* argument: number of rooms
    capacity_by_day,   \* argument: None, or day -> capacity
    ticks,             \* ticks per currency unit in the prices of `bookings`
    search,            \* how the backend's candidate assignments are enumerated
    pc,                \* position in solve_two_tier_lco
    m,                 \* the built model (sets, parameters, index sets)
    obj,               \* the active objective component m.obj
    RevenueFloor,      \* the constraint m.RevenueFloor: None or its right-hand side
    vals,              \* values of the variables a, y, w loaded in the model
    res_L2,            \* backend status of the first solve
    res_L3,            \* backend status of the second solve
    Z2,                \* recorded Tier-1 optimum
    result,            \* the returned LCOResult
    error,             \* exception propagated to the caller
    solveLog           \* history: (objective, floor present) at each backend call

vars == <<bookings, days, rooms, capacity_by_day, ticks, search, pc, m, obj,
          RevenueFloor, vals, res_L2, res_L3, Z2, result, error, solveLog>>

\* an absent value is the empty tuple, a present value x is <<x>>
None == <<>>

Some(x) == <<x>>

The(o) == o[1]

------------------------------------------------------------------------------
(* Bounds of the checked instances *)

NBookings == 2
NDays == 2
MaxRooms == 2
MaxLen == 2
WHead == 1

(* Program constants *)

UnitsPerCurrency == 1000000
DefaultDays == 5
DefaultRooms == 10

ShowScale == 100

Prices == {UnitsPerCurrency, UnitsPerCurrency + 1}
ShowProbs == {ShowScale \div 2, ShowScale}
CapChoices == {-1, 0, MaxRooms}

------------------------------------------------------------------------------
(* Arithmetic helpers *)

RECURSIVE FSum(_, _)
FSum(f, S) ==
    IF S = {} THEN 0
    ELSE LET x == CHOOSE x \in S : TRUE IN f[x] + FSum(f, S \ {x})

RECURSIVE SeqSum(_)
SeqSum(s) == IF s = <<>> THEN 0 ELSE Head(s) + SeqSum(Tail(s))

Min2(x, y) == IF x <= y THEN x ELSE y

Max2(x, y) == IF x >= y THEN x ELSE y

Range(s) == {s[i] : i \in DOMAIN s}

\* list(range(lo, hi))
PyRange(lo, hi) == [i \in 1..Max2(0, hi - lo) |-> lo + i - 1]

------------------------------------------------------------------------------
(* Data *)

BookingSpec(s, L, p, q) ==
    [start_day |-> s, length_of_stay |-> L, price_per_night |-> p, show_prob |-> q]

build_default_bookings ==
    LET raw == <<
            <<1, 2, 120, 92>>, <<1, 3, 110, 85>>, <<2, 2, 150, 90>>,
            <<2, 3, 130, 80>>, <<3, 2, 140, 88>>, <<3, 3, 100, 83>>,
            <<4, 2, 160, 87>>, <<4, 2, 115, 78>>, <<5, 1, 200, 95>>,
            <<1, 1, 180, 90>>, <<2, 1, 170, 82>>, <<3, 1, 175, 89>> >>
    IN [b \in 1..12 |->
          BookingSpec(raw[b][1], raw[b][2], raw[b][3], raw[b][4])]

------------------------------------------------------------------------------
(* Stay days *)

\* pyomo_lco_mini.stay_days: list(range(s, min(s + L, DAYS + 1)))
stay_days(s, L, DAYS) == PyRange(s, Min2(s + L, DAYS + 1))

\* mutant: the last day is taken one too far
StayFilter_inclusive(s, L, d) == d >= s /\ d <= s + L

StayFilter(s, L, d) == d >= s /\ d < s + L

\* static_lco_model._stay_days: [d for d in m.D if d >= s and d < s + L]
_stay_days(s, L, D) == SelectSeq(D, LAMBDA d : StayFilter(s, L, d))

------------------------------------------------------------------------------
(* build_static_lco_model *)

DaySeq(n) == [i \in 1..n |-> i]

\* Param(m.B, initialize=start_day, within=m.D): a start day outside D is refused
StartWithinD(bk, D) == \A b \in DOMAIN bk : bk[b].start_day \in Range(D)

\* mutant: the default capacity is taken from the number of days
DefaultCapacity_days(nrooms, ndays) == [d \in 1..ndays |-> ndays]

DefaultCapacity(nrooms, ndays) == [d \in 1..ndays |-> nrooms]

InStayOf(B, D, start, length) ==
    {<<b, d>> \in Range(B) \X Range(D) : d \in Range(_stay_days(start[b], length[b], D))}

YIDXOf(instay, R) == {<<bd[1], r, bd[2]>> : bd \in instay, r \in Range(R)}

ContPairOf(B, R, D, instay) ==
    {brd \in Range(B) \X Range(R) \X Range(D) :
        <<brd[1], brd[3]>> \in instay /\ <<brd[1], brd[3] + 1>> \in instay}

build_static_lco_model(bk0, ndays, nrooms, cap0) ==
    LET bk == IF bk0 = None THEN build_default_bookings ELSE The(bk0)
        D == DaySeq(ndays)
        R == DaySeq(nrooms)
        B == DaySeq(Len(bk))
        start == [b \in Range(B) |-> bk[b].start_day]
        length == [b \in Range(B) |-> bk[b].length_of_stay]
        instay == InStayOf(B, D, start, length)
    IN [D |-> D, R |-> R, B |-> B,
        start |-> start,
        length |-> length,
        price |-> [b \in Range(B) |-> bk[b].price_per_night],
        showp |-> [b \in Range(B) |-> bk[b].show_prob],
        cap |-> IF cap0 = None THEN DefaultCapacity(nrooms, ndays) ELSE The(cap0),
        InStay |-> instay,
        YIDX |-> YIDXOf(instay, R),
        ContPair |-> ContPairOf(B, R, D, instay)]

------------------------------------------------------------------------------
(* Constraints and objectives, over values v = [a, y, w] *)

\* mutant: a room may hold two bookings on a day
room_excl_two(mm, v, r, d) ==
    LET S == {b \in Range(mm.B) : <<b, d>> \in mm.InStay}
    IN FSum([b \in S |-> v.y[<<b, r, d>>]], S) <= 2

room_excl(mm, v, r, d) ==
    LET S == {b \in Range(mm.B) : <<b, d>> \in mm.InStay}
    IN FSum([b \in S |-> v.y[<<b, r, d>>]], S) <= 1

\* if (b, d) not in m.InStay: return Constraint.Skip
assign_skip(mm, b, d) == <<b, d>> \notin mm.InStay

\* mutant: an accepted booking needs at least one room, any booking may hold rooms
assign_link_atleast(mm, v, b, d) ==
    IF assign_skip(mm, b, d) THEN TRUE
    ELSE FSum([r \in Range(mm.R) |-> v.y[<<b, r, d>>]], Range(mm.R)) >= v.a[b]

\* mutant: an accepted booking need not hold a room
assign_link_atmost(mm, v, b, d) ==
    IF assign_skip(mm, b, d) THEN TRUE
    ELSE FSum([r \in Range(mm.R) |-> v.y[<<b, r, d>>]], Range(mm.R)) <= v.a[b]

assign_link(mm, v, b, d) ==
    IF assign_skip(mm, b, d) THEN TRUE
    ELSE FSum([r \in Range(mm.R) |-> v.y[<<b, r, d>>]], Range(mm.R)) = v.a[b]

continuity(mm, v, b, r, d) == v.y[<<b, r, d>>] = v.y[<<b, r, d + 1>>]

exp_shows(mm, a, d) ==
    LET S == {b \in Range(mm.B) : <<b, d>> \in mm.InStay}
    IN FSum([b \in S |-> a[b] * mm.showp[b]], S)

\* mutant: the capacity is left out of the slack constraint
overbooking_nocap(mm, v, d) == v.w[d] >= exp_shows(mm, v.a, d)

overbooking(mm, v, d) == v.w[d] >= exp_shows(mm, v.a, d) - mm.cap[d] * ShowScale

RevExpr(mm, a) ==
    FSum([b \in Range(mm.B) |-> a[b] * mm.price[b] * mm.length[b]], Range(mm.B))

SlackExpr(mm, w) == FSum(w, Range(mm.D))

\* mutant: the floor does not bind
RevenueFloorHolds_ignored(mm, a, floor) == TRUE

RevenueFloorHolds(mm, a, floor) == floor = None \/ RevExpr(mm, a) >= The(floor)

RoomExcl(mm, v) == \A r \in Range(mm.R), d \in Range(mm.D) : room_excl(mm, v, r, d)

Assign(mm, v) == \A b \in Range(mm.B), d \in Range(mm.D) : assign_link(mm, v, b, d)

Continuity(mm, v) == \A c \in mm.ContPair : continuity(mm, v, c[1], c[2], c[3])

Overbook(mm, v) == \A d \in Range(mm.D) : overbooking(mm, v, d)

NonNegativeReals(mm, v) == \A d \in Range(mm.D) : v.w[d] >= 0

\* every constraint of the model, with the floor when it has been added
Satisfies(mm, floor, v) ==
    /\ Assign(mm, v)
    /\ Continuity(mm, v)
    /\ RoomExcl(mm, v)
    /\ Overbook(mm, v)
    /\ NonNegativeReals(mm, v)
    /\ RevenueFloorHolds(mm, v.a, floor)

------------------------------------------------------------------------------
(* The solve backend: opt.solve(m).  It returns an optimum of the active    *)
(* objective over the assignments that satisfy the model's constraints.    *)
(* Candidate assignments: a over all of {0,1}^B; y over all of {0,1}^YIDX  *)
(* ("exhaustive"), or, for instances too large to enumerate, the first-fit *)
(* room assignment of a ("firstfit"); w[d] over the bounds its constraints *)
(* name (0 and the overbooking right-hand side) plus a headroom of up to   *)
(* WHead.                                                                  *)

RECURSIVE FirstFitRooms(_, _, _, _)
FirstFitRooms(mm, a, b, occ) ==
    IF b > Len(mm.B) THEN <<>>
    ELSE LET sd == {d \in Range(mm.D) : <<b, d>> \in mm.InStay}
             free == {r \in Range(mm.R) : \A d \in sd : <<r, d>> \notin occ}
             r == IF a[b] = 0 \/ free = {} THEN 0
                  ELSE CHOOSE x \in free : \A z \in free : x <= z
             occ2 == IF r = 0 THEN occ ELSE occ \cup {<<r, d>> : d \in sd}
         IN <<r>> \o FirstFitRooms(mm, a, b + 1, occ2)

FirstFit(mm, a) ==
    LET room == FirstFitRooms(mm, a, 1, {})
    IN [i \in mm.YIDX |-> IF room[i[1]] = i[2] THEN 1 ELSE 0]

ACandidates(mm) == [Range(mm.B) -> {0, 1}]

YCandidates(mm, a, how) ==
    IF how = "exhaustive" THEN [mm.YIDX -> {0, 1}] ELSE {FirstFit(mm, a)}

WDayCandidates(mm, a, d) ==
    LET rhs == exp_shows(mm, a, d) - mm.cap[d] * ShowScale
    IN {x \in {base + h : base \in {0, rhs}, h \in 0..WHead} :
          LET v == [a |-> a, w |-> [e \in {d} |-> x]]
          IN overbooking(mm, v, d) /\ v.w[d] >= 0}

RECURSIVE WCandidates(_, _, _)
WCandidates(mm, a, n) ==
    IF n = 0 THEN {<<>>}
    ELSE {Append(s, x) : s \in WCandidates(mm, a, n - 1), x \in WDayCandidates(mm, a, n)}

FeasibleAY(mm, floor, how) ==
    UNION {{[a |-> a, y |-> y] :
                y \in {y \in YCandidates(mm, a, how) :
                         LET v == [a |-> a, y |-> y]
                         IN Assign(mm, v) /\ Continuity(mm, v) /\ RoomExcl(mm, v)}} :
           a \in {a \in ACandidates(mm) : RevenueFloorHolds(mm, a, floor)}}

WithSlack(mm, AY) ==
    UNION {{[a |-> ay.a, y |-> ay.y, w |-> w] : w \in WCandidates(mm, ay.a, Len(mm.D))} :
           ay \in AY}

SetMax(S) == CHOOSE x \in S : \A z \in S : z <= x

SetMin(S) == CHOOSE x \in S : \A z \in S : x <= z

\* the optima of the active objective
Optimal(mm, objective, floor, how) ==
    LET AY == FeasibleAY(mm, floor, how)
    IN IF objective = "revenue"
       THEN \* w has no part in the revenue: the best (a, y), with every w they admit
            LET AYW == {ay \in AY : WCandidates(mm, ay.a, Len(mm.D)) # {}}
            IN IF AYW = {} THEN {}
               ELSE LET best == SetMax({RevExpr(mm, ay.a) : ay \in AYW})
                    IN WithSlack(mm, {ay \in AYW : RevExpr(mm, ay.a) = best})
       ELSE LET F == WithSlack(mm, AY)
            IN IF F = {} THEN {}
               ELSE LET best == SetMin({SlackExpr(mm, s.w) : s \in F})
                    IN {s \in F : SlackExpr(mm, s.w) = best}

\* SolveOutcome {status, variable_values}: on a status other than OPTIMAL no
\* solution is loaded and the variables keep the values they had
solve(mm, objective, floor, how, loaded) ==
    LET opt == Optimal(mm, objective, floor, how)
    IN {[status |-> "OPTIMAL", vals |-> Some(s)] : s \in opt}
       \cup (IF opt = {} THEN {[status |-> "INFEASIBLE", vals |-> loaded]} ELSE {})
       \cup {[status |-> "ERROR", vals |-> loaded]}

------------------------------------------------------------------------------
(* Extraction of the result (solve_two_tier_lco, after the second solve) *)

Over(x) == 2 * x > 1      \* value(x) > 0.5

RoomOk(mm, v, b, r, sdays) ==
    \A d \in Range(sdays) : <<b, r, d>> \in mm.YIDX /\ Over(v.y[<<b, r, d>>])

RECURSIVE ScanRooms(_, _, _, _, _)
ScanRooms(mm, v, b, sdays, i) ==
    IF i > Len(mm.R) THEN None
    ELSE IF RoomOk(mm, v, b, mm.R[i], sdays) THEN Some(mm.R[i])
    ELSE ScanRooms(mm, v, b, sdays, i + 1)

chosen_room(mm, v, b) == ScanRooms(mm, v, b, _stay_days(mm.start[b], mm.length[b], mm.D), 1)

accepted_bookings(mm, v) == SelectSeq(mm.B, LAMBDA b : Over(v.a[b]))

LCOResult(mm, v, z) ==
    LET acc == accepted_bookings(mm, v)
    IN [revenue_L2 |-> z,
        slack_L3 |-> SeqSum(v.w),
        accepted_bookings |-> acc,
        room_assignments |->
            [b \in Range(acc) |->
                <<chosen_room(mm, v, b), _stay_days(mm.start[b], mm.length[b], mm.D)>>],
        slack_by_day |-> v.w]

------------------------------------------------------------------------------
(* solve_two_tier_lco, step by step *)

\* revenue_floor_tolerance = 1e-6, in ticks; revenues are whole ticks, so
\* Rev >= Z2 - 1e-6 is Rev >= Z2 - (the tolerance rounded down to whole ticks)
revenue_floor_tolerance(t) == t \div UnitsPerCurrency

BookingSpecs ==
    {BookingSpec(s, L, p, q) : s \in 1..(NDays + 1), L \in 1..MaxLen, p \in Prices, q \in ShowProbs}

InitCommon ==
    /\ pc = "start"
    /\ m = None
    /\ obj = "none"
    /\ RevenueFloor = None
    /\ vals = None
    /\ res_L2 = "none"
    /\ res_L3 = "none"
    /\ Z2 = None
    /\ result = None
    /\ error = "none"
    /\ solveLog = <<>>

Init ==
    /\ bookings \in {Some(bk) : bk \in [1..NBookings -> BookingSpecs]}
    /\ days = NDays
    /\ rooms \in 1..MaxRooms
    /\ capacity_by_day \in {None} \cup {Some(c) : c \in [1..NDays -> CapChoices]}
    /\ ticks = UnitsPerCurrency
    /\ search = "exhaustive"
    /\ InitCommon

\* the call with every argument left at its default: the built-in instance
InitDefault ==
    /\ bookings = None
    /\ days = DefaultDays
    /\ rooms = DefaultRooms
    /\ capacity_by_day = None
    /\ ticks = 1
    /\ search = "firstfit"
    /\ InitCommon

args == <<bookings, days, rooms, capacity_by_day, ticks, search>>

\* line 238: m = build_static_lco_model(...); it ends with the revenue objective set
Build ==
    /\ pc = "start"
    /\ LET bk == IF bookings = None THEN build_default_bookings ELSE The(bookings)
       IN IF StartWithinD(bk, DaySeq(days))
          THEN /\ m' = Some(build_static_lco_model(bookings, days, rooms, capacity_by_day))
               /\ obj' = "revenue"
               /\ pc' = "built"
               /\ error' = error
          ELSE /\ error' = "ValueError"
               /\ pc' = "raised"
               /\ UNCHANGED <<m, obj>>
    /\ UNCHANGED <<args, RevenueFloor, vals, res_L2, res_L3, Z2, result, solveLog>>

LogEntry == [objective |-> obj, floor |-> RevenueFloor # None]

\* line 248: res_L2 = opt.solve(m)
Solve_L2 ==
    /\ pc = "built"
    /\ \E out \in solve(The(m), obj, RevenueFloor, search, vals) :
          /\ res_L2' = out.status
          /\ vals' = out.vals
    /\ solveLog' = Append(solveLog, LogEntry)
    /\ pc' = "solved_L2"
    /\ UNCHANGED <<args, m, obj, RevenueFloor, res_L3, Z2, result, error>>

\* the backend cannot be run at all: the solve call raises
BackendRaises ==
    /\ pc \in {"built", "tier3_ready"}
    /\ solveLog' = Append(solveLog, LogEntry)
    /\ error' = "RuntimeError"
    /\ pc' = "raised"
    /\ UNCHANGED <<args, m, obj, RevenueFloor, vals, res_L2, res_L3, Z2, result>>

\* line 249: Z2 = value(m.RevExpr); value() of a variable with no value raises
RecordZ2 ==
    /\ pc = "solved_L2"
    /\ IF vals = None
       THEN /\ error' = "ValueError"
            /\ pc' = "raised"
            /\ Z2' = Z2
       ELSE /\ Z2' = Some(RevExpr(The(m), The(vals).a))
            /\ pc' = "recorded"
            /\ error' = error
    /\ UNCHANGED <<args, m, obj, RevenueFloor, vals, res_L2, res_L3, result, solveLog>>

\* mutant: the objective is switched without the floor
InjectRevenueFloor_forgotten ==
    /\ pc = "recorded"
    /\ pc' = "floored"
    /\ UNCHANGED <<args, m, obj, RevenueFloor, vals, res_L2, res_L3, Z2, result, error,
                   solveLog>>

\* line 252: m.RevenueFloor = Constraint(expr=m.RevExpr >= Z2 - revenue_floor_tolerance)
InjectRevenueFloor ==
    /\ pc = "recorded"
    /\ RevenueFloor' = Some(The(Z2) - revenue_floor_tolerance(ticks))
    /\ pc' = "floored"
    /\ UNCHANGED <<args, m, obj, vals, res_L2, res_L3, Z2, result, error, solveLog>>

\* line 253: m.del_component(m.obj)
DelObjective ==
    /\ pc = "floored"
    /\ obj' = "none"
    /\ pc' = "obj_deleted"
    /\ UNCHANGED <<args, m, RevenueFloor, vals, res_L2, res_L3, Z2, result, error, solveLog>>

\* line 254: m.obj = Objective(expr=sum(m.w[d] for d in m.D), sense=minimize)
SetSlackObjective ==
    /\ pc = "obj_deleted"
    /\ obj' = "slack"
    /\ pc' = "tier3_ready"
    /\ UNCHANGED <<args, m, RevenueFloor, vals, res_L2, res_L3, Z2, result, error, solveLog>>

\* line 256: res_L3 = opt.solve(m)
Solve_L3 ==
    /\ pc = "tier3_ready"
    /\ \E out \in solve(The(m), obj, RevenueFloor, search, vals) :
          /\ res_L3' = out.status
          /\ vals' = out.vals
    /\ solveLog' = Append(solveLog, LogEntry)
    /\ pc' = "solved_L3"
    /\ UNCHANGED <<args, m, obj, RevenueFloor, res_L2, Z2, result, error>>

\* lines 258-292: read the values and return the LCOResult
Extract ==
    /\ pc = "solved_L3"
    /\ result' = Some(LCOResult(The(m), The(vals), The(Z2)))
    /\ pc' = "done"
    /\ UNCHANGED <<args, m, obj, RevenueFloor, vals, res_L2, res_L3, Z2, error, solveLog>>

Next ==
    \/ Build
    \/ Solve_L2
    \/ BackendRaises
    \/ RecordZ2
    \/ InjectRevenueFloor
    \/ DelObjective
    \/ SetSlackObjective
    \/ Solve_L3
    \/ Extract

Spec == Init /\ [][Next]_vars

SpecDefault == InitDefault /\ [][Next]_vars

------------------------------------------------------------------------------
(* Properties.  They are stated over the arguments and the returned result. *)

Bk == IF bookings = None THEN build_default_bookings ELSE The(bookings)

CapOf(d) == IF capacity_by_day = None THEN rooms ELSE The(capacity_by_day)[d]

\* the days s..min(s + L - 1, H) of booking b
StayOf(b) ==
    {d \in 1..days :
        /\ Bk[b].start_day <= d
        /\ d <= Min2(Bk[b].start_day + Bk[b].length_of_stay - 1, days)}

BothOptimal == res_L2 = "OPTIMAL" /\ res_L3 = "OPTIMAL"

Completed == pc = "done" /\ BothOptimal

Accepted == Range(The(result).accepted_bookings)

RoomOf(b) == The(result).room_assignments[b][1]

\* C1: the backend is called at most twice; the first call sees the revenue
\* objective and no floor, the second the slack objective with the floor; the
\* floor is in the model whenever the revenue objective is not (so it is added
\* before the objective is replaced, and slack is never optimised without it);
\* a run that returns has made exactly two calls, and the steps are in order.
C1_TierOrder ==
    /\ Len(solveLog) <= 2
    /\ Len(solveLog) >= 1 => solveLog[1] = [objective |-> "revenue", floor |-> FALSE]
    /\ Len(solveLog) >= 2 => solveLog[2] = [objective |-> "slack", floor |-> TRUE]
    /\ (m # None /\ obj # "revenue") => RevenueFloor # None
    /\ res_L3 # "none" => (res_L2 # "none" /\ Z2 # None /\ obj = "slack")
    /\ res_L2 # "none" => m # None
    /\ pc = "done" => Len(solveLog) = 2

C1_Witness == pc = "done" /\ Len(solveLog) = 2 /\ obj = "slack"

\* C2: when both solves return an optimum, the revenue of the reported accepted
\* set (price times the length of stay as given, not clipped to the horizon) is
\* at least the recorded Tier-1 value less the tolerance.
C2_RevenueFloor ==
    Completed =>
        LET rev == FSum([b \in Accepted |->
                            Bk[b].price_per_night * Bk[b].length_of_stay], Accepted)
        IN /\ The(result).revenue_L2 = The(Z2)
           \* rev >= Z2 - 1e-6, with rev and Z2 in whole ticks
           /\ The(Z2) - rev <= ticks \div UnitsPerCurrency

\* Tier 2 gave up revenue, within the tolerance, for less slack
C2_Witness ==
    /\ Completed
    /\ FSum([b \in Accepted |-> Bk[b].price_per_night * Bk[b].length_of_stay], Accepted)
         < The(Z2)

\* C3: a solve that does not succeed is surfaced: after a failed first solve no
\* Z2 is recorded, no floor is added, no second solve is made and no result is
\* returned; after a failed second solve no result is returned.
C3_FailureSurfaced ==
    /\ res_L2 \notin {"none", "OPTIMAL"} =>
          (Z2 = None /\ RevenueFloor = None /\ Len(solveLog) <= 1 /\ result = None)
    /\ res_L3 \notin {"none", "OPTIMAL"} => result = None

\* C4: in the values a solve has loaded, and so in every result, a room holds at
\* most one accepted booking on a day, and two accepted bookings whose stays
\* share a day are not reported with the same room.
C4_Exclusivity ==
    /\ vals # None =>
          \A r \in 1..rooms, d \in 1..days :
              Cardinality({b \in DOMAIN Bk :
                              /\ d \in StayOf(b)
                              /\ The(vals).a[b] = 1
                              /\ The(vals).y[<<b, r, d>>] = 1}) <= 1
    /\ result # None =>
          \A b1 \in Accepted, b2 \in Accepted :
              (b1 # b2 /\ StayOf(b1) \cap StayOf(b2) # {} /\ RoomOf(b1) # None)
                  => RoomOf(b1) # RoomOf(b2)

C4_Witness ==
    /\ pc = "done"
    /\ rooms = 2
    /\ \E b1 \in Accepted, b2 \in Accepted :
          b1 # b2 /\ StayOf(b1) \cap StayOf(b2) # {} /\ RoomOf(b1) # RoomOf(b2)

\* C5: a booking reported as accepted has no room or a room it holds on every
\* day of its stay; in the loaded values an accepted booking holds exactly one
\* room on each day of its stay, the same one on all of them, so at most one
\* room passes the scan; a booking that is not accepted holds no room.
C5_Continuity ==
    /\ result # None =>
          \A b \in Accepted :
              \/ RoomOf(b) = None
              \/ \A d \in StayOf(b) : The(vals).y[<<b, The(RoomOf(b)), d>>] = 1
    /\ vals # None =>
          \A b \in DOMAIN Bk :
              LET held(d) == {r \in 1..rooms : The(vals).y[<<b, r, d>>] = 1}
              IN IF The(vals).a[b] = 1
                 THEN /\ \A d \in StayOf(b) : Cardinality(held(d)) = 1
                      /\ \A d \in StayOf(b), e \in StayOf(b) : held(d) = held(e)
                      /\ StayOf(b) # {} =>
                            Cardinality({r \in 1..rooms : \A d \in StayOf(b) : r \in held(d)}) = 1
                 ELSE \A d \in StayOf(b) : held(d) = {}

C5_Witness ==
    /\ pc = "done"
    /\ \E b \in Accepted : Cardinality(StayOf(b)) >= 2 /\ RoomOf(b) = Some(2)

\* C6: when both solves return an optimum, the reported slack of each day is the
\* positive part of the expected shows of the accepted bookings staying that day
\* less the day's capacity.
C6_SlackPositivePart ==
    Completed =>
        \A d \in 1..days :
            LET S == {b \in Accepted : d \in StayOf(b)}
                expected == FSum([b \in S |-> Bk[b].show_prob], S)
            IN The(result).slack_by_day[d] = Max2(0, expected - CapOf(d) * ShowScale)

C6_Witness ==
    /\ Completed
    /\ \E d \in 1..days : The(result).slack_by_day[d] > 0
    /\ \E d \in 1..days : The(result).slack_by_day[d] = 0 /\ CapOf(d) = 0

\* C7: both stay-day functions give the days s..min(s + L - 1, H) in order (none
\* when s > H); the built index sets are exactly those days: assignment
\* variables for every room on every stay day, linkage constraints on every
\* stay day, continuity constraints where the next day is a stay day too.
C7_SparseIndexing ==
    /\ \A b \in DOMAIN Bk :
          LET s == Bk[b].start_day
              L == Bk[b].length_of_stay
              last == Min2(s + L - 1, days)
              expect == [i \in 1..Max2(0, last - s + 1) |-> s + i - 1]
          IN /\ stay_days(s, L, days) = expect
             /\ _stay_days(s, L, DaySeq(days)) = expect
             /\ Range(expect) = StayOf(b)
             /\ s > days => expect = <<>>
    /\ m # None =>
          /\ The(m).YIDX = {i \in (DOMAIN Bk) \X (1..rooms) \X (1..days) : i[3] \in StayOf(i[1])}
          /\ {bd \in (DOMAIN Bk) \X (1..days) : ~assign_skip(The(m), bd[1], bd[2])}
                = {bd \in (DOMAIN Bk) \X (1..days) : bd[2] \in StayOf(bd[1])}
          /\ The(m).ContPair =
                {i \in (DOMAIN Bk) \X (1..rooms) \X (1..days) :
                    i[3] \in StayOf(i[1]) /\ i[3] + 1 \in StayOf(i[1])}
          /\ \A i \in The(m).ContPair : <<i[1], i[2], i[3] + 1>> \in The(m).YIDX

C7_Witness ==
    /\ m # None
    /\ \E b \in DOMAIN Bk :
          /\ Bk[b].start_day + Bk[b].length_of_stay - 1 > days
          /\ Bk[b].start_day = days
    /\ The(m).ContPair # {}

C9_ReferenceScenario ==
    Completed =>
        /\ The(result).accepted_bookings = [i \in 1..12 |-> i]
        /\ The(result).revenue_L2 = 3115
        /\ The(result).revenue_L2 =
              FSum([b \in Accepted |-> Bk[b].price_per_night * Bk[b].length_of_stay], Accepted)
        /\ \A d \in 1..5 : The(result).slack_by_day[d] = 0
        /\ The(result).slack_L3 = 0

C9_Witness == Completed /\ bookings = None /\ days = 5 /\ rooms = 10

\* C10: with the capacity left at its default, the expected shows of any loaded
\* values stay within the capacity on every day, and a completed solve reports
\* no slack; a completed solve reports slack only when some day's capacity is
\* below the number of rooms.
C10_DefaultCapacityNoSlack ==
    /\ (capacity_by_day = None /\ vals # None) =>
          \A d \in 1..days :
              LET S == {b \in DOMAIN Bk : d \in StayOf(b) /\ The(vals).a[b] = 1}
              IN /\ Cardinality(S) <= rooms
                 /\ FSum([b \in S |-> Bk[b].show_prob], S) <= CapOf(d) * ShowScale
    /\ (capacity_by_day = None /\ Completed) =>
          /\ \A d \in 1..days : The(result).slack_by_day[d] = 0
          /\ The(result).slack_L3 = 0
    /\ (Completed /\ \E d \in 1..days : The(result).slack_by_day[d] > 0)
          => \E d \in 1..days : CapOf(d) < rooms

\* the rooms run out: a booking is turned away although the capacity is the default
C10_Witness ==
    /\ capacity_by_day = None
    /\ Completed
    /\ rooms = 1
    /\ Cardinality(Accepted) < NBookings
    /\ \E d \in 1..days : Cardinality({b \in Accepted : d \in StayOf(b)}) = rooms

====
